---- MODULE Spec2Model ----
(***************************************************************************)
(* LibreView / LibreLinkUp HTTP clients: the authentication state machine  *)
(* (login, region redirect, terms-of-use continuation) and the query       *)
(* operations of the four client classes of the repository:                *)
(*   "client"      src/client.py                       LibreCGMClient      *)
(*   "libre_view"  src/libreapp/clients/libre_view.py  LibreCGMClient      *)
(*   "client_new"  src/client_new.py                   LibreCGMClient      *)
(*   "linkup"      src/libreapp/clients/libre_linkup.py LibreLinkUpClient  *)
(* A call is split at its blocking HTTP requests: one action issues the    *)
(* request, the next one consumes the server's answer and runs the code up *)
(* to the next request or to the return/raise of the call.                 *)
(* Strings that the code splits on "/" (URLs) are sequences of segments:   *)
(* "https://host/us" is <<"https:", "", "host", "us">>.                    *)
(***************************************************************************)
EXTENDS Integers, Sequences, FiniteSets, TLC

\* ------------------------------------------------------------------ bounds
\* request counter of one call saturates here (the code has no counter)
MaxReq == 5
\* redirect counter of one authenticate() saturates here (the code has none)
MaxHops == 4
\* masking: the longest string tried as a field value
MaxStrLen == 10
\* shared instance: redirects the server answers to one authenticate()
MaxSharedHops == 1
MaxRev == 5
MaxConns == 2

\* ------------------------------------------------------------ value domain
Callers == {1, 2}
Variants == {"client", "libre_view", "client_new", "linkup"}
CGMVariants == {"client", "libre_view", "client_new"}

\* Python None, and a dict key that is not there
NoneVal == "<None>"
NoKey == "<nokey>"

\* token strings a server hands out
Tokens == {"T1", "T2"}

\* JSON values of data.authTicket: key absent, null, or a dict
AbsentTicket == [shape |-> "absent", token |-> NoKey]
NullTicket == [shape |-> "null", token |-> NoKey]
DictTicket(t) == [shape |-> "dict", token |-> t]
TicketVals == {AbsentTicket, NullTicket} \cup {DictTicket(t) : t \in Tokens \cup {NoKey}}

Regions == {"us", "eu"}
Statuses == {0, 2, 4}

\* configured base URLs ("https://host" and "https://host/") and regions
Host == <<"https:", "", "host">>
ConfigBaseUrls == {Host, Host \o <<"">>}
ConfigRegions == {"us", ""}

PatientIds == {"", "p1"}
CountryCodes == {"", "u", "us", "usa"}

\* --------------------------------------------------------- server answers
\* kind: "transport" (no answer), "http" (non-2xx), "nonjson" (2xx, body is
\* not JSON), "ok" (2xx JSON body with the fields below)
Body(hasData, redirect, region, status, ticket, toptoken) ==
    [kind |-> "ok", hasData |-> hasData, redirect |-> redirect, region |-> region,
     status |-> status, ticket |-> ticket, toptoken |-> toptoken]
Failure(kind) ==
    [kind |-> kind, hasData |-> FALSE, redirect |-> FALSE, region |-> NoKey,
     status |-> 0, ticket |-> AbsentTicket, toptoken |-> NoKey]
NoResp == Failure("none")
\* a non-2xx answer may still carry a JSON body, here one that looks like a login success
HttpErrorWithBody ==
    [kind |-> "http", hasData |-> TRUE, redirect |-> FALSE, region |-> NoKey,
     status |-> 0, ticket |-> DictTicket("T1"), toptoken |-> "T1"]
Failures == {Failure(k) : k \in {"transport", "http", "nonjson"}} \cup {HttpErrorWithBody}

CGMBodies ==
    {Body(TRUE, FALSE, NoKey, s, t, NoKey) : s \in Statuses, t \in TicketVals}
    \cup {Body(FALSE, FALSE, NoKey, s, AbsentTicket, NoKey) : s \in {0, 4}}
    \cup {Body(TRUE, TRUE, r, 0, AbsentTicket, NoKey) : r \in Regions \cup {NoKey}}
    \cup {Body(TRUE, TRUE, r, 4, DictTicket("T1"), NoKey) : r \in Regions \cup {NoKey}}
LinkUpBodies ==
    {Body(FALSE, FALSE, NoKey, s, AbsentTicket, t) : s \in {0, 2}, t \in Tokens \cup {NoKey}}

Responses(v) == Failures \cup (IF v = "linkup" THEN LinkUpBodies ELSE CGMBodies)

\* ------------------------------------------------------------------- state
VARIABLES
    variant,      \* which client class this instance is
    base_url,     \* self.base_url (linkup: self.config.base_url)
    auth_ticket,  \* self.auth_ticket
    token,        \* self.token
    pc,           \* per caller: "idle", "login_wait", "terms_wait", "query_wait"
    op,           \* per caller: the public method called last
    arg,          \* per caller: its argument
    request,      \* per caller: the last HTTP request of the current/last call
    nreq,         \* per caller: requests issued by the current/last call
    hops,         \* per caller: redirects followed by the current/last authenticate
    result,       \* per caller: "none" while running, "ok", or the exception raised
    lastResp,     \* per caller: the last answer the call received
    start,        \* per caller: the session fields when the call began
    lastStep,     \* the last authentication exchange answered with a 2xx JSON body
    masker,       \* masking: the implementation called
    maskArg,      \* masking: its argument (data)
    maskRet,      \* masking: its return value (masked_data), Unset before the call
    tmp,          \* shared instance, per caller: the value read for self.token
    alone,        \* shared instance, per caller: no other call overlapped its call
    appPc,        \* application (connect(), CLI main()): where it is
    appRet,       \* application: connect()'s return value / the exit status
    calls,        \* application: the client methods called so far, with their outcome
    conns,        \* application: the connections still to be processed
    dash          \* dashboard: st.session_state and what the last rerun showed

clientVars == <<variant, base_url, auth_ticket, token, pc, op, arg, request, nreq,
                hops, result, lastResp, start, lastStep>>
maskVars == <<masker, maskArg, maskRet>>
sharedVars == <<tmp, alone>>
appVars == <<appPc, appRet, calls, conns, dash>>
vars == <<clientVars, maskVars, sharedVars, appVars>>
session == <<base_url, auth_ticket, token>>

\* ----------------------------------------------------------- constructors
\* str.rstrip('/')
RECURSIVE RStripSlash(_)
RStripSlash(url) ==
    IF Len(url) > 1 /\ url[Len(url)] = ""
    THEN RStripSlash(SubSeq(url, 1, Len(url) - 1))
    ELSE url

\* __init__: base_url.rstrip('/') and, for a truthy region, "/" + region
InitBaseUrl(cfgUrl, region) ==
    IF region # "" THEN Append(RStripSlash(cfgUrl), region) ELSE RStripSlash(cfgUrl)

\* LibreLinkUpConfig.base_url for the default region "us"
LinkUpBaseUrl == <<"https:", "", "api-us.libreview.io">>

DefaultVersion(v) == IF v = "linkup" THEN "4.9.0" ELSE "4.7"
DefaultProduct(v) == IF v = "client_new" THEN "llu.android" ELSE "llu.ios"

\* self.DEFAULT_HEADERS
DefaultHeaders(v) ==
    [version |-> DefaultVersion(v), product |-> DefaultProduct(v), Authorization |-> NoKey]

\* f"Bearer {tok}"
Bearer(tok) == IF tok = NoneVal THEN "Bearer None" ELSE "Bearer " \o tok

\* Python truthiness of self.token
Truthy(tok) == tok \notin {NoneVal, ""}

NoReq == [method |-> "none", url |-> <<>>, headers |-> DefaultHeaders("client"),
          body |-> "none", params |-> NoKey]
Request(method, url, headers, body, params) ==
    [method |-> method, url |-> url, headers |-> headers, body |-> body, params |-> params]

Snapshot == [base_url |-> base_url, auth_ticket |-> auth_ticket, token |-> token]

\* ---------------------------------------------------------------- helpers
Inc(n, max) == IF n < max THEN n + 1 ELSE n

\* f"{self.base_url}{endpoint}"
Join(url, endpoint) == url \o endpoint

\* base_url.rsplit('/', 1)[0]
RSplitHead(url) == IF Len(url) > 1 THEN SubSeq(url, 1, Len(url) - 1) ELSE url

\* variant of RedirectBaseUrl: the new region is not taken over
RedirectBaseUrlKept(url, new_region) == url

\* f"{self.base_url.rsplit('/', 1)[0]}/{new_region}"
RedirectBaseUrl(url, new_region) == Append(RSplitHead(url), new_region)

\* {**DEFAULT_HEADERS, "Authorization": f"Bearer {tok}"}
AuthHeaders(v, tok) == [DefaultHeaders(v) EXCEPT !.Authorization = Bearer(tok)]

\* LibreLinkUpClient._make_request: Authorization only for a truthy token
LinkUpHeaders(v, tok) == IF Truthy(tok) THEN AuthHeaders(v, tok) ELSE DefaultHeaders(v)

\* the login request of authenticate()
LoginRequest(v, url, tok) ==
    Request("POST", Join(url, <<"llu", "auth", "login">>),
            IF v = "linkup" THEN LinkUpHeaders(v, tok) ELSE DefaultHeaders(v),
            "credentials", NoKey)

\* ------------------------------------------------------- REST call wrapper
\* variant of RaiseForStatus: the status check is missing
RaiseForStatusSkipped(resp) == FALSE

\* response.raise_for_status()
RaiseForStatus(resp) == resp.kind = "http"

\* variant of RequestOutcome: a body that is not JSON is handed on instead of raising
RequestOutcomeNoDecodeError(resp) ==
    IF resp.kind = "transport" THEN "ConnectionError"
    ELSE IF RaiseForStatus(resp) THEN "HTTPError"
    ELSE "ok"

\* the exception _make_request / requests.post raises, "ok" when it returns
RequestOutcome(resp) ==
    IF resp.kind = "transport" THEN "ConnectionError"
    ELSE IF RaiseForStatus(resp) THEN "HTTPError"
    ELSE IF resp.kind = "nonjson" THEN "JSONDecodeError"
    ELSE "ok"

\* ------------------------------------------------------------ authenticate
\* data.get('data', {}).get('redirect')
IsRedirect(data) == data.hasData /\ data.redirect

\* data.get('status') == 4
TermsRequired(data) == data.status = 4

\* data['data']['authTicket']: the exception of the lookup, "ok" if none
TicketLookup(data) ==
    IF ~data.hasData \/ data.ticket.shape = "absent" THEN "KeyError" ELSE "ok"

\* self.auth_ticket['token']: the exception of the lookup, "ok" if none
TokenLookup(tkt) ==
    IF tkt.shape = "null" THEN "TypeError"
    ELSE IF tkt.token = NoKey THEN "KeyError"
    ELSE "ok"

\* variant of TokenOnTermsRequired: the status-4 ticket's token is stored at once
TokenOnTermsRequiredStored(tok, tkt) == tkt.token

\* self.token after a status-4 login answer: authenticate() does not assign it
TokenOnTermsRequired(tok, tkt) == tok

\* variant of TokenOfTicket: the token is read with .get() from the wrong level
TokenOfTicketMissed(tkt) == NoneVal

\* self.token = self.auth_ticket['token']
TokenOfTicket(tkt) == tkt.token

Outcome(url, tkt, tok, goto, err) ==
    [base_url |-> url, auth_ticket |-> tkt, token |-> tok, goto |-> goto, err |-> err]

\* LibreLinkUpClient.authenticate after _make_request returned data
LinkUpLogin(url, tkt, tok, data) ==
    Outcome(url, tkt, IF data.toptoken = NoKey THEN NoneVal ELSE data.toptoken,
            "return", "ok")

\* variant of CGMLogin: status 4 is looked at before the redirect flag
CGMLoginTermsFirst(url, tkt, tok, data) ==
    IF TermsRequired(data) /\ TicketLookup(data) = "ok" THEN
        Outcome(url, data.ticket, TokenOnTermsRequired(tok, data.ticket), "accept_terms", "ok")
    ELSE IF IsRedirect(data) THEN
        IF data.region = NoKey THEN Outcome(url, tkt, tok, "raise", "KeyError")
        ELSE Outcome(RedirectBaseUrl(url, data.region), tkt, tok, "authenticate", "ok")
    ELSE IF TicketLookup(data) # "ok" THEN
        Outcome(url, tkt, tok, "raise", TicketLookup(data))
    ELSE IF TokenLookup(data.ticket) # "ok" THEN
        Outcome(url, data.ticket, tok, "raise", TokenLookup(data.ticket))
    ELSE Outcome(url, data.ticket, TokenOfTicket(data.ticket), "return", "ok")

\* LibreCGMClient.authenticate after the login request returned data
CGMLogin(url, tkt, tok, data) ==
    IF IsRedirect(data) THEN
        IF data.region = NoKey THEN Outcome(url, tkt, tok, "raise", "KeyError")
        ELSE Outcome(RedirectBaseUrl(url, data.region), tkt, tok, "authenticate", "ok")
    ELSE IF TicketLookup(data) # "ok" THEN
        Outcome(url, tkt, tok, "raise", TicketLookup(data))
    ELSE IF TermsRequired(data) THEN
        Outcome(url, data.ticket, TokenOnTermsRequired(tok, data.ticket), "accept_terms", "ok")
    ELSE IF TokenLookup(data.ticket) # "ok" THEN
        Outcome(url, data.ticket, tok, "raise", TokenLookup(data.ticket))
    ELSE Outcome(url, data.ticket, TokenOfTicket(data.ticket), "return", "ok")

\* authenticate() from the answer of its login request on
HandleLogin(v, url, tkt, tok, resp) ==
    IF RequestOutcome(resp) # "ok" THEN Outcome(url, tkt, tok, "raise", RequestOutcome(resp))
    ELSE IF v = "linkup" THEN LinkUpLogin(url, tkt, tok, resp)
    ELSE CGMLogin(url, tkt, tok, resp)

\* ------------------------------------------------------------ accept_terms
\* accept_terms() up to its request: the exception raised, "ok" if it sends.
\* client_new.py has no "if not self.auth_ticket" guard.
AcceptTermsEntry(v, tkt) ==
    IF v # "client_new" /\ tkt.shape = "null" THEN "RuntimeError"
    ELSE TokenLookup(tkt)

\* variant of TermsRequest: the bearer is the stored self.token, not the ticket's token
TermsRequestStoredToken(v, url, tkt) ==
    Request("POST", Join(url, <<"auth", "continue", "tou">>),
            AuthHeaders(v, token), "none", NoKey)

TermsRequest(v, url, tkt) ==
    Request("POST", Join(url, <<"auth", "continue", "tou">>),
            AuthHeaders(v, tkt.token), "none", NoKey)

\* accept_terms() from the answer of its request on
HandleTerms(v, url, tkt, tok, resp) ==
    IF RequestOutcome(resp) # "ok" THEN Outcome(url, tkt, tok, "raise", RequestOutcome(resp))
    ELSE IF TicketLookup(resp) # "ok" THEN Outcome(url, tkt, tok, "raise", TicketLookup(resp))
    ELSE IF TokenLookup(resp.ticket) # "ok" THEN
        Outcome(url, resp.ticket, tok, "raise", TokenLookup(resp.ticket))
    ELSE Outcome(url, resp.ticket, TokenOfTicket(resp.ticket), "return", "ok")

\* ----------------------------------------------------------------- masking
\* JSON values: a string is its sequence of characters, a dict maps keys to values
Str(s) == [t |-> "str", v |-> s]
Dict(f) == [t |-> "dict", v |-> f]
List(q) == [t |-> "list", v |-> q]
Unset == [t |-> "unset", v |-> <<>>]
EmptyDict == Dict(<<>>)

\* the three implementations: client.py DefaultDataMasker,
\* utils/data_masking.py DefaultDataMasker, main.py log_sensitive_data
Maskers == {"client", "utils", "main"}

\* sensitive_fields
SensitiveFields(m) ==
    IF m = "utils"
    THEN {"token", "email", "password", "firstName", "lastName", "username", "Authorization"}
    ELSE {"token", "email", "password", "firstName", "lastName", "Authorization"}

Dots == <<".", ".", ".">>
\* variant of Stars: a fixed mask token of nine characters
StarsLong == <<"*", "*", "*", "*", "*", "*", "*", "*", "*">>

Stars == <<"*", "*", "*", "*">>

\* s[:n] and s[-n:]
Prefix(s, n) == SubSeq(s, 1, IF n < Len(s) THEN n ELSE Len(s))
Suffix(s, n) == SubSeq(s, IF Len(s) > n THEN Len(s) - n + 1 ELSE 1, Len(s))

\* how many leading characters the masked form keeps
KeptPrefix(m) == IF m = "main" THEN 4 ELSE 3

\* f"{str(value)[:3]}...{str(value)[-4:]}" if len(str(value)) > 8 else "****"
\* (main.py: value[:4])
MaskValue(m, s) ==
    IF Len(s) > 8 THEN Prefix(s, KeptPrefix(m)) \o Dots \o Suffix(s, 4) ELSE Stars

\* Python truth value of a string, dict or list
JTruthy(x) == DOMAIN x.v # {}

\* mask_sensitive_data / log_sensitive_data; a truthy value under a sensitive key
\* is a string in every input of this model
RECURSIVE MaskData(_, _)
MaskEntry(m, k, x) ==
    IF k \in SensitiveFields(m) /\ JTruthy(x) THEN Str(MaskValue(m, x.v))
    ELSE IF m = "client" THEN x
    ELSE IF x.t = "dict" THEN MaskData(m, x)
    ELSE IF x.t = "list"
    THEN List([i \in DOMAIN x.v |->
                 IF x.v[i].t = "dict" THEN MaskData(m, x.v[i]) ELSE x.v[i]])
    ELSE x
MaskData(m, d) ==
    IF d.t # "dict" THEN d ELSE Dict([k \in DOMAIN d.v |-> MaskEntry(m, k, d.v[k])])

\* the characters of the strings that travel in requests and answers
TokenChars(tok) ==
    IF tok = "T1" THEN <<"t", "o", "k", "e", "n", "-", "o", "n", "e", "-", "1">>
    ELSE <<"t", "o", "k", "e", "n", "-", "t", "w", "o", "-", "2">>
EmailChars == <<"u", "s", "e", "r", "@", "m", "a", "i", "l", ".", "i", "o">>
PasswordChars == <<"p", "a", "s", "s", "w", "o", "r", "d", "1", "2">>
VersionChars(ver) ==
    IF ver = "4.7" THEN <<"4", ".", "7">> ELSE <<"4", ".", "9", ".", "0">>
ProductChars(prod) ==
    <<"l", "l", "u", ".">>
    \o (IF prod = "llu.ios" THEN <<"i", "o", "s">>
        ELSE <<"a", "n", "d", "r", "o", "i", "d">>)
\* f"Bearer {token}"
BearerChars(auth) ==
    <<"B", "e", "a", "r", "e", "r", " ">>
    \o (IF \E t \in Tokens : Bearer(t) = auth
        THEN TokenChars(CHOOSE t \in Tokens : Bearer(t) = auth)
        ELSE <<"N", "o", "n", "e">>)

Null == [t |-> "null", v |-> <<>>]
Num(n) == [t |-> "num", v |-> <<n>>]
JTrue == [t |-> "bool", v |-> <<TRUE>>]

\* the headers dict of a request
HeadersJson(h) ==
    LET base == "version" :> Str(VersionChars(h.version))
                @@ "product" :> Str(ProductChars(h.product))
    IN  Dict(IF h.Authorization = NoKey THEN base
             ELSE base @@ "Authorization" :> Str(BearerChars(h.Authorization)))

\* the JSON payload of a request: the credentials of the login, None otherwise
PayloadJson(v, body) ==
    IF body # "credentials" THEN Null
    ELSE IF v = "linkup"
    THEN Dict("username" :> Str(EmailChars) @@ "password" :> Str(PasswordChars)
              @@ "clientVersion" :> Str(VersionChars(DefaultVersion(v))))
    ELSE Dict("email" :> Str(EmailChars) @@ "password" :> Str(PasswordChars))

\* variant of WritesToArgument: masked_data = data, without copy()
WritesToArgumentNoCopy(m) == TRUE

\* masked_data = data.copy(): the assignments masked_data[key] = ... go to a
\* new dict, not to the argument
WritesToArgument(m) == FALSE

\* the argument after the call. Nested dicts are shared between the argument
\* and its copy, so what a recursive call does to its own argument shows in
\* the outer one; the list comprehension builds a new list.
RECURSIVE MaskArgAfter(_, _)
MaskArgAfter(m, d) ==
    IF d.t # "dict" THEN d
    ELSE IF WritesToArgument(m) THEN MaskData(m, d)
    ELSE Dict([k \in DOMAIN d.v |->
                LET x == d.v[k] IN
                IF (k \in SensitiveFields(m) /\ JTruthy(x)) \/ m = "client" THEN x
                ELSE IF x.t = "dict" THEN MaskArgAfter(m, x)
                ELSE IF x.t = "list"
                THEN List([i \in DOMAIN x.v |->
                             IF x.v[i].t = "dict" THEN MaskArgAfter(m, x.v[i])
                             ELSE x.v[i]])
                ELSE x])

\* the arguments tried: strings of every length up to MaxStrLen under sensitive
\* and other keys, at top level, in a nested dict and in a list
Alphabet == <<"a", "b", "c", "d", "e", "f", "g", "h", "i", "j", "k", "l">>
Strings == {SubSeq(Alphabet, 1, n) : n \in 0..MaxStrLen}
FieldKeys == {"token", "username", "Authorization", "note"}
FlatInputs == {Dict(k :> Str(s)) : k \in FieldKeys, s \in Strings}
NestedInputs ==
    {Dict("data" :> d) : d \in FlatInputs}
    \cup {Dict("items" :> List(<<d, Str(<<"x">>)>>)) : d \in FlatInputs}
\* a list nested in a list
DeepInputs == {Dict("items" :> List(<<List(<<d>>)>>)) : d \in FlatInputs}
\* the headers and the login payload the clients hand to their request logging
RequestInputs ==
    {HeadersJson(AuthHeaders(v, t)) : v \in {"client", "linkup"}, t \in Tokens}
    \cup {PayloadJson(v, "credentials") : v \in {"client", "linkup"}}
MaskInputs == FlatInputs \cup NestedInputs \cup DeepInputs \cup RequestInputs

\* ------------------------------------------------------------- applications
\* the dashboard's cache: current_patient_id, current_patient_data; the readings
\* of a patient are identified by the patient and a revision
NoData == [patient |-> "none", rev |-> 0]
Readings(p, r) == [patient |-> p, rev |-> r]
DashInit ==
    [sel |-> "none", cacheId |-> "none", cacheData |-> NoData, shown |-> NoData,
     fetched |-> FALSE]

\* no application runs
AppIdle ==
    /\ appPc = "off"
    /\ appRet = "none"
    /\ calls = <<>>
    /\ conns = <<>>
    /\ dash = DashInit

Init ==
    /\ variant \in Variants
    /\ base_url \in IF variant = "linkup" THEN {LinkUpBaseUrl}
                    ELSE {InitBaseUrl(u, r) : u \in ConfigBaseUrls, r \in ConfigRegions}
    /\ auth_ticket = NullTicket
    /\ token = NoneVal
    /\ pc = [c \in Callers |-> "idle"]
    /\ op = [c \in Callers |-> "none"]
    /\ arg = [c \in Callers |-> NoKey]
    /\ request = [c \in Callers |-> NoReq]
    /\ nreq = [c \in Callers |-> 0]
    /\ hops = [c \in Callers |-> 0]
    /\ result = [c \in Callers |-> "none"]
    /\ lastResp = [c \in Callers |-> NoResp]
    /\ start = [c \in Callers |-> Snapshot]
    /\ lastStep = "none"
    /\ masker = "utils"
    /\ maskArg = EmptyDict
    /\ maskRet = Unset
    /\ tmp = [c \in Callers |-> NoneVal]
    /\ alone = [c \in Callers |-> TRUE]
    /\ AppIdle

\* -------------------------------------------------------- query operations
IdOps == {"get_patient_graph", "get_patient_logbook", "get_notification_settings",
          "get_connection_graph"}
QueryOps(v) ==
    IF v = "linkup" THEN {"list_connections", "get_connection_graph"}
    ELSE {"get_current_user", "get_account", "list_connections", "get_patient_graph",
          "get_patient_logbook", "get_notification_settings", "get_country_config"}
ArgsOf(o) ==
    IF o \in IdOps THEN PatientIds
    ELSE IF o = "get_country_config" THEN CountryCodes
    ELSE {NoKey}

Endpoint(o, a) ==
    CASE o = "get_current_user" -> <<"user">>
      [] o = "get_account" -> <<"account">>
      [] o = "list_connections" -> <<"llu", "connections">>
      [] o = "get_patient_graph" -> <<"llu", "connections", a, "graph">>
      [] o = "get_connection_graph" -> <<"llu", "connections", a, "graph">>
      [] o = "get_patient_logbook" -> <<"llu", "connections", a, "logbook">>
      [] o = "get_notification_settings" -> <<"llu", "notifications", "settings", a>>
      [] o = "get_country_config" -> <<"llu", "config", "country">>

\* the argument checks at the top of a query method; client_new.py has none
ValidationError(v, o, a) ==
    IF v = "client_new" THEN FALSE
    ELSE IF o \in IdOps THEN a = ""
    ELSE IF o = "get_country_config" THEN a = "" \/ Len(a) # 2
    ELSE FALSE

\* _headers() / _get_auth_headers() raises; the linkup client has no such check
PreconditionError(v, o, tok) ==
    v # "linkup" /\ o # "get_country_config" /\ ~Truthy(tok)

\* a query method up to its request: the exception raised, "ok" if it sends
QueryEntry(v, o, a, tok) ==
    IF ValidationError(v, o, a) THEN "ValueError"
    ELSE IF PreconditionError(v, o, tok) THEN "RuntimeError"
    ELSE "ok"

\* variant of QueryHeaders: get_country_config sends the bearer like the other queries
QueryHeadersAllAuth(v, o, tok) ==
    IF v = "linkup" THEN LinkUpHeaders(v, tok) ELSE AuthHeaders(v, tok)

QueryHeaders(v, o, tok) ==
    IF v = "linkup" THEN LinkUpHeaders(v, tok)
    ELSE IF o = "get_country_config" THEN DefaultHeaders(v)
    ELSE AuthHeaders(v, tok)

QueryRequest(v, url, o, a, tok) ==
    Request("GET", Join(url, Endpoint(o, a)), QueryHeaders(v, o, tok), "none",
            IF o = "get_country_config" THEN a ELSE NoKey)

\* ----------------------------------------------------------------- actions
\* what a 2xx JSON answer to a login request says
LoginStepKind(resp) ==
    IF IsRedirect(resp) THEN "redirect"
    ELSE IF resp.status = 0 THEN "login0"
    ELSE IF resp.status = 4 THEN "login4"
    ELSE "loginOther"

\* a public method begins: the per-call bookkeeping
Begin(c, o, a) ==
    /\ pc[c] = "idle"
    /\ op' = [op EXCEPT ![c] = o]
    /\ arg' = [arg EXCEPT ![c] = a]
    /\ start' = [start EXCEPT ![c] = Snapshot]
    /\ hops' = [hops EXCEPT ![c] = 0]
    /\ lastResp' = [lastResp EXCEPT ![c] = NoResp]

\* the call raises before any request went out
NoRequest(c) == request' = [request EXCEPT ![c] = NoReq]

\* the call issues request r and blocks in state p
Send(c, r, p) ==
    /\ request' = [request EXCEPT ![c] = r]
    /\ pc' = [pc EXCEPT ![c] = p]
    /\ result' = [result EXCEPT ![c] = "none"]

\* the call returns ("ok") or raises e
Finish(c, e) ==
    /\ pc' = [pc EXCEPT ![c] = "idle"]
    /\ result' = [result EXCEPT ![c] = e]

\* authenticate(): build and send the login request
Authenticate(c) ==
    /\ Begin(c, "authenticate", NoKey)
    /\ nreq' = [nreq EXCEPT ![c] = 1]
    /\ Send(c, LoginRequest(variant, base_url, token), "login_wait")
    /\ UNCHANGED <<variant, base_url, auth_ticket, token, lastStep>>

\* accept_terms() entered with session o: raise, or send the continuation request
EnterTerms(c, o, n) ==
    IF AcceptTermsEntry(variant, o.auth_ticket) # "ok"
    THEN /\ Finish(c, AcceptTermsEntry(variant, o.auth_ticket))
         /\ request' = [request EXCEPT ![c] = IF n = 0 THEN NoReq ELSE @]
         /\ nreq' = [nreq EXCEPT ![c] = n]
    ELSE /\ Send(c, TermsRequest(variant, o.base_url, o.auth_ticket), "terms_wait")
         /\ nreq' = [nreq EXCEPT ![c] = Inc(n, MaxReq)]

\* authenticate(): the login request is answered
LoginResponse(c) ==
    /\ pc[c] = "login_wait"
    /\ \E resp \in Responses(variant) :
        LET o == HandleLogin(variant, base_url, auth_ticket, token, resp) IN
        /\ lastResp' = [lastResp EXCEPT ![c] = resp]
        /\ lastStep' = IF RequestOutcome(resp) = "ok" THEN LoginStepKind(resp) ELSE lastStep
        /\ base_url' = o.base_url
        /\ auth_ticket' = o.auth_ticket
        /\ token' = o.token
        /\ CASE o.goto = "authenticate" ->
                  /\ Send(c, LoginRequest(variant, o.base_url, o.token), "login_wait")
                  /\ nreq' = [nreq EXCEPT ![c] = Inc(@, MaxReq)]
                  /\ hops' = [hops EXCEPT ![c] = Inc(@, MaxHops)]
             [] o.goto = "accept_terms" ->
                  /\ EnterTerms(c, o, nreq[c])
                  /\ UNCHANGED hops
             [] OTHER ->
                  /\ Finish(c, o.err)
                  /\ UNCHANGED <<request, nreq, hops>>
    /\ UNCHANGED <<variant, op, arg, start>>

\* accept_terms() called directly
AcceptTerms(c) ==
    /\ variant # "linkup"
    /\ Begin(c, "accept_terms", NoKey)
    /\ EnterTerms(c, Snapshot, 0)
    /\ UNCHANGED <<variant, base_url, auth_ticket, token, lastStep>>

\* accept_terms(): the continuation request is answered
TermsResponse(c) ==
    /\ pc[c] = "terms_wait"
    /\ \E resp \in Responses(variant) :
        LET o == HandleTerms(variant, base_url, auth_ticket, token, resp) IN
        /\ lastResp' = [lastResp EXCEPT ![c] = resp]
        /\ lastStep' = IF o.goto = "return" THEN "terms" ELSE lastStep
        /\ base_url' = o.base_url
        /\ auth_ticket' = o.auth_ticket
        /\ token' = o.token
        /\ Finish(c, o.err)
    /\ UNCHANGED <<variant, op, arg, start, request, nreq, hops>>

\* a query method is called with argument a
Query(c) ==
    \E o \in QueryOps(variant) : \E a \in ArgsOf(o) :
        /\ Begin(c, o, a)
        /\ IF QueryEntry(variant, o, a, token) # "ok"
           THEN /\ Finish(c, QueryEntry(variant, o, a, token))
                /\ NoRequest(c)
                /\ nreq' = [nreq EXCEPT ![c] = 0]
           ELSE /\ Send(c, QueryRequest(variant, base_url, o, a, token), "query_wait")
                /\ nreq' = [nreq EXCEPT ![c] = 1]
        /\ UNCHANGED <<variant, base_url, auth_ticket, token, lastStep>>

\* variant of QueryResponse: a failed request is sent once more
QueryResponseRetries(c) ==
    /\ pc[c] = "query_wait"
    /\ \E resp \in Responses(variant) :
        /\ lastResp' = [lastResp EXCEPT ![c] = Failure(resp.kind)]
        /\ IF RequestOutcome(resp) # "ok" /\ nreq[c] = 1
           THEN /\ nreq' = [nreq EXCEPT ![c] = 2]
                /\ UNCHANGED <<pc, result>>
           ELSE /\ Finish(c, RequestOutcome(resp))
                /\ UNCHANGED nreq
    /\ UNCHANGED <<variant, base_url, auth_ticket, token, op, arg, start, request,
                   hops, lastStep>>

\* variant of QueryResponse: a failed request logs the session out
QueryResponseDropsToken(c) ==
    /\ pc[c] = "query_wait"
    /\ \E resp \in Responses(variant) :
        /\ lastResp' = [lastResp EXCEPT ![c] = Failure(resp.kind)]
        /\ token' = IF resp.kind = "http" THEN NoneVal ELSE token
        /\ Finish(c, RequestOutcome(resp))
    /\ UNCHANGED <<variant, base_url, auth_ticket, op, arg, start, request, nreq,
                   hops, lastStep>>

\* the request of a query method is answered: return the body or raise
\* (the client does not look into the body, only its kind is recorded)
QueryResponse(c) ==
    /\ pc[c] = "query_wait"
    /\ \E resp \in Responses(variant) :
        /\ lastResp' = [lastResp EXCEPT ![c] = Failure(resp.kind)]
        /\ Finish(c, RequestOutcome(resp))
    /\ UNCHANGED <<variant, base_url, auth_ticket, token, op, arg, start, request, nreq,
                   hops, lastStep>>

Step(c) ==
    \/ Authenticate(c)
    \/ LoginResponse(c)
    \/ AcceptTerms(c)
    \/ TermsResponse(c)
    \/ Query(c)
    \/ QueryResponse(c)

\* one logical caller owns the client (spec.md section 5)
Next == Step(1) /\ UNCHANGED maskVars /\ UNCHANGED sharedVars /\ UNCHANGED appVars

Spec == Init /\ [][Next]_vars

\* the masking functions on their own: one call of one implementation on one
\* argument, with an idle client
MaskCall ==
    /\ maskRet = Unset
    /\ maskRet' = MaskData(masker, maskArg)
    /\ maskArg' = MaskArgAfter(masker, maskArg)
    /\ UNCHANGED masker

\* the value returned is masked once more
MaskAgain ==
    /\ maskRet # Unset
    /\ maskArg # maskRet
    /\ maskRet' = MaskData(masker, maskRet)
    /\ maskArg' = MaskArgAfter(masker, maskRet)
    /\ UNCHANGED masker

InitMask ==
    /\ variant = "client"
    /\ base_url = InitBaseUrl(Host, "")
    /\ auth_ticket = NullTicket
    /\ token = NoneVal
    /\ pc = [c \in Callers |-> "idle"]
    /\ op = [c \in Callers |-> "none"]
    /\ arg = [c \in Callers |-> NoKey]
    /\ request = [c \in Callers |-> NoReq]
    /\ nreq = [c \in Callers |-> 0]
    /\ hops = [c \in Callers |-> 0]
    /\ result = [c \in Callers |-> "none"]
    /\ lastResp = [c \in Callers |-> NoResp]
    /\ start = [c \in Callers |-> Snapshot]
    /\ lastStep = "none"
    /\ masker \in Maskers
    /\ maskArg \in MaskInputs
    /\ maskRet = Unset
    /\ tmp = [c \in Callers |-> NoneVal]
    /\ alone = [c \in Callers |-> TRUE]
    /\ AppIdle

NextMask ==
    /\ MaskCall \/ MaskAgain
    /\ UNCHANGED clientVars /\ UNCHANGED sharedVars /\ UNCHANGED appVars

SpecMask == InitMask /\ [][NextMask]_vars

\* ------------------------------------------------- one instance, two callers
\* Two threads call authenticate() on the same LibreCGMClient. A call can be
\* preempted while it waits for an answer and between the statements that
\* write the session: self.auth_ticket = ..., the read of
\* self.auth_ticket['token'] and the store into self.token. Handling an answer
\* up to the first write, and building the next request, are single steps.

\* the answers the server gives while the instance is shared: logins with
\* status 0 (tickets T1, T2, one without token) and status 4, a redirect, a
\* non-2xx failure
SharedResponses ==
    {Body(TRUE, FALSE, NoKey, 0, DictTicket(t), NoKey) : t \in Tokens \cup {NoKey}}
    \cup {Body(TRUE, FALSE, NoKey, 4, DictTicket("T1"), NoKey),
          Body(TRUE, TRUE, "eu", 0, AbsentTicket, NoKey),
          Failure("http")}

\* the answer a call can get next: at most MaxSharedHops redirects per call
SharedAnswers(c) ==
    {r \in SharedResponses : IsRedirect(r) => hops[c] < MaxSharedHops}

\* the answer makes authenticate() reach "self.auth_ticket = ..." of the
\* normal login success
LoginStoresTicket(resp) ==
    /\ RequestOutcome(resp) = "ok" /\ ~IsRedirect(resp)
    /\ TicketLookup(resp) = "ok" /\ ~TermsRequired(resp)

\* the answer makes accept_terms() reach "self.auth_ticket = ..."
TermsStoresTicket(resp) == RequestOutcome(resp) = "ok" /\ TicketLookup(resp) = "ok"

\* authenticate(): the login request is answered; on success only
\* self.auth_ticket is assigned in this step
LoginAnswered(c) ==
    /\ pc[c] = "login_wait"
    /\ \E resp \in SharedAnswers(c) :
        LET o == HandleLogin(variant, base_url, auth_ticket, token, resp) IN
        /\ lastResp' = [lastResp EXCEPT ![c] = resp]
        /\ lastStep' = IF RequestOutcome(resp) = "ok" THEN LoginStepKind(resp) ELSE lastStep
        /\ base_url' = o.base_url
        /\ auth_ticket' = o.auth_ticket
        /\ UNCHANGED token
        /\ CASE o.goto = "authenticate" ->
                  /\ Send(c, LoginRequest(variant, o.base_url, token), "login_wait")
                  /\ nreq' = [nreq EXCEPT ![c] = Inc(@, MaxReq)]
                  /\ hops' = [hops EXCEPT ![c] = Inc(@, MaxHops)]
             [] o.goto = "accept_terms" ->
                  /\ EnterTerms(c, o, nreq[c])
                  /\ UNCHANGED hops
             [] o.goto \notin {"authenticate", "accept_terms"} /\ LoginStoresTicket(resp) ->
                  /\ pc' = [pc EXCEPT ![c] = "ticket_stored"]
                  /\ UNCHANGED <<result, request, nreq, hops>>
             [] OTHER ->
                  /\ Finish(c, o.err)
                  /\ UNCHANGED <<request, nreq, hops>>
    /\ UNCHANGED <<variant, op, arg, start, tmp>>

\* accept_terms(): the continuation request is answered; on success only
\* self.auth_ticket is assigned in this step
TermsAnswered(c) ==
    /\ pc[c] = "terms_wait"
    /\ \E resp \in SharedAnswers(c) :
        LET o == HandleTerms(variant, base_url, auth_ticket, token, resp) IN
        /\ lastResp' = [lastResp EXCEPT ![c] = resp]
        /\ lastStep' = IF o.goto = "return" THEN "terms" ELSE lastStep
        /\ auth_ticket' = o.auth_ticket
        /\ IF TermsStoresTicket(resp)
           THEN /\ pc' = [pc EXCEPT ![c] = "ticket_stored"]
                /\ UNCHANGED result
           ELSE Finish(c, o.err)
    /\ UNCHANGED <<variant, base_url, token, op, arg, start, request, nreq, hops, tmp>>

\* self.auth_ticket['token'] is read from the ticket the session holds now
ReadToken(c) ==
    /\ pc[c] = "ticket_stored"
    /\ IF TokenLookup(auth_ticket) # "ok"
       THEN /\ Finish(c, TokenLookup(auth_ticket))
            /\ UNCHANGED tmp
       ELSE /\ tmp' = [tmp EXCEPT ![c] = TokenOfTicket(auth_ticket)]
            /\ pc' = [pc EXCEPT ![c] = "token_read"]
            /\ UNCHANGED result
    /\ UNCHANGED <<variant, base_url, auth_ticket, token, op, arg, start, request, nreq,
                   hops, lastResp, lastStep>>

\* variant of StoreToken: a token already stored is kept
StoreTokenKeepsOld(c) ==
    /\ pc[c] = "token_read"
    /\ token' = IF token = NoneVal THEN tmp[c] ELSE token
    /\ Finish(c, "ok")
    /\ UNCHANGED <<variant, base_url, auth_ticket, op, arg, start, request, nreq, hops,
                   lastResp, lastStep, tmp>>

\* self.token = <the value read>; the call returns data
StoreToken(c) ==
    /\ pc[c] = "token_read"
    /\ token' = tmp[c]
    /\ Finish(c, "ok")
    /\ UNCHANGED <<variant, base_url, auth_ticket, op, arg, start, request, nreq, hops,
                   lastResp, lastStep, tmp>>

\* a caller that begins a call while another call runs overlaps it
AloneAfter(c) ==
    IF pc[c] # "idle" THEN alone
    ELSE [d \in Callers |->
            IF d = c THEN \A e \in Callers \ {c} : pc[e] = "idle"
            ELSE alone[d] /\ pc[d] = "idle"]

\* each caller calls authenticate() once
StepShared(c) ==
    \/ op[c] = "none" /\ Authenticate(c) /\ UNCHANGED tmp
    \/ LoginAnswered(c)
    \/ TermsAnswered(c)
    \/ ReadToken(c)
    \/ StoreToken(c)

InitShared ==
    /\ Init
    /\ variant \in {"client", "libre_view"}

NextShared ==
    \E c \in Callers :
        /\ StepShared(c)
        /\ alone' = AloneAfter(c)
        /\ UNCHANGED maskVars /\ UNCHANGED appVars

SpecShared == InitShared /\ [][NextShared]_vars

\* ------------------------------------------- LibreClientManager.connect()
\* connect() after authenticate() moved on: still waiting, returned auth_data
\* (the last answer), or raised
ConnectAfterAuthenticate ==
    IF pc'[1] # "idle" THEN UNCHANGED <<appPc, appRet>>
    ELSE IF result'[1] # "ok" THEN appPc' = "done" /\ appRet' = "False"
    ELSE IF lastResp'[1].status # 0 THEN appPc' = "done" /\ appRet' = "False"
    ELSE appPc' = "list_connections" /\ UNCHANGED appRet

\* self.client = LibreCGMClient(...); auth_data = self.client.authenticate()
ConnectAuthenticate ==
    /\ appPc = "connect"
    /\ Authenticate(1)
    /\ appPc' = "authenticate"
    /\ UNCHANGED <<appRet, calls, conns, dash>>
    /\ UNCHANGED <<maskVars, sharedVars>>

ConnectLoginAnswer ==
    /\ appPc = "authenticate"
    /\ LoginResponse(1)
    /\ ConnectAfterAuthenticate
    /\ UNCHANGED <<calls, conns, dash>>
    /\ UNCHANGED <<maskVars, sharedVars>>

ConnectTermsAnswer ==
    /\ appPc = "authenticate"
    /\ TermsResponse(1)
    /\ ConnectAfterAuthenticate
    /\ UNCHANGED <<calls, conns, dash>>
    /\ UNCHANGED <<maskVars, sharedVars>>

\* connections_data = self.client.list_connections()
ConnectList ==
    /\ appPc = "list_connections" /\ pc[1] = "idle"
    /\ Query(1)
    /\ op'[1] = "list_connections"
    /\ IF pc'[1] = "idle"
       THEN appPc' = "done" /\ appRet' = "False"
       ELSE UNCHANGED <<appPc, appRet>>
    /\ UNCHANGED <<calls, conns, dash>>
    /\ UNCHANGED <<maskVars, sharedVars>>

\* the connections are stored and connect() returns True; any exception
\* makes it return False
ConnectListAnswer ==
    /\ appPc = "list_connections" /\ pc[1] = "query_wait"
    /\ QueryResponse(1)
    /\ appPc' = "done"
    /\ appRet' = IF result'[1] = "ok" THEN "True" ELSE "False"
    /\ UNCHANGED <<calls, conns, dash>>
    /\ UNCHANGED <<maskVars, sharedVars>>

\* ApiConfig(version, product): default base URL and region "us"
InitConnect ==
    /\ variant = "libre_view"
    /\ base_url = InitBaseUrl(Host, "us")
    /\ auth_ticket = NullTicket
    /\ token = NoneVal
    /\ pc = [c \in Callers |-> "idle"]
    /\ op = [c \in Callers |-> "none"]
    /\ arg = [c \in Callers |-> NoKey]
    /\ request = [c \in Callers |-> NoReq]
    /\ nreq = [c \in Callers |-> 0]
    /\ hops = [c \in Callers |-> 0]
    /\ result = [c \in Callers |-> "none"]
    /\ lastResp = [c \in Callers |-> NoResp]
    /\ start = [c \in Callers |-> Snapshot]
    /\ lastStep = "none"
    /\ masker = "utils"
    /\ maskArg = EmptyDict
    /\ maskRet = Unset
    /\ tmp = [c \in Callers |-> NoneVal]
    /\ alone = [c \in Callers |-> TRUE]
    /\ appPc = "connect"
    /\ appRet = "none"
    /\ calls = <<>>
    /\ conns = <<>>
    /\ dash = DashInit

NextConnect ==
    \/ ConnectAuthenticate
    \/ ConnectLoginAnswer
    \/ ConnectTermsAnswer
    \/ ConnectList
    \/ ConnectListAnswer

SpecConnect == InitConnect /\ [][NextConnect]_vars

\* ------------------------------------------------------ dashboard main()
\* the patientId of the selected connection; "" is a connection without one
DashPatients == {"p1", "p2", "p3", "p4"}
DashSelections == DashPatients \cup {""}
EmptyReadings == [patient |-> "empty", rev |-> 0]

\* what get_patient_data(p) returns: the graph readings of patient p as the
\* server has them now, an empty list, or None after any exception
GetPatientData(p) ==
    {Readings(p, r) : r \in 1..MaxRev} \cup {EmptyReadings, NoData}

\* "if raw_readings:"
HasReadings(x) == x.rev # 0

\* the cache test of a rerun, without the patient comparison
NeedsFetchIgnoresPatient(d, p) == d.cacheData = NoData
\* 'current_patient_data' not in st.session_state
\*   or st.session_state.get('current_patient_id') != patient_id
NeedsFetch(d, p) == d.cacheData = NoData \/ d.cacheId # p

\* one run of the script below the patient selector, with patient p selected
\* and raw the answer a fetch would get
DashAfter(d, p, raw) ==
    IF p = ""
    THEN [d EXCEPT !.sel = p, !.shown = NoData, !.fetched = FALSE]
    ELSE IF NeedsFetch(d, p)
    THEN IF HasReadings(raw)
         THEN [sel |-> p, cacheId |-> p, cacheData |-> raw, shown |-> raw,
               fetched |-> TRUE]
         ELSE [d EXCEPT !.sel = p, !.shown = NoData, !.fetched = TRUE]
    ELSE [d EXCEPT !.sel = p, !.shown = d.cacheData, !.fetched = FALSE]

DashRerun ==
    /\ appPc = "dashboard"
    /\ \E p \in DashSelections : \E raw \in GetPatientData(p) :
        dash' = DashAfter(dash, p, raw)
    /\ UNCHANGED <<appPc, appRet, calls, conns>>
    /\ UNCHANGED <<clientVars, maskVars, sharedVars>>

\* connected, connections stored, nothing cached yet
InitDash ==
    /\ variant = "libre_view"
    /\ base_url = InitBaseUrl(Host, "us")
    /\ auth_ticket = NullTicket
    /\ token = NoneVal
    /\ pc = [c \in Callers |-> "idle"]
    /\ op = [c \in Callers |-> "none"]
    /\ arg = [c \in Callers |-> NoKey]
    /\ request = [c \in Callers |-> NoReq]
    /\ nreq = [c \in Callers |-> 0]
    /\ hops = [c \in Callers |-> 0]
    /\ result = [c \in Callers |-> "none"]
    /\ lastResp = [c \in Callers |-> NoResp]
    /\ start = [c \in Callers |-> Snapshot]
    /\ lastStep = "none"
    /\ masker = "utils"
    /\ maskArg = EmptyDict
    /\ maskRet = Unset
    /\ tmp = [c \in Callers |-> NoneVal]
    /\ alone = [c \in Callers |-> TRUE]
    /\ appPc = "dashboard"
    /\ appRet = "none"
    /\ calls = <<>>
    /\ conns = <<>>
    /\ dash = DashInit

NextDash == DashRerun

SpecDash == InitDash /\ [][NextDash]_vars

\* ------------------------------------------------------------- CLI main()
\* the patientId of each connection list_connections may return ("": none)
RECURSIVE SeqsUpTo(_, _)
SeqsUpTo(S, n) ==
    IF n = 0 THEN {<<>>}
    ELSE SeqsUpTo(S, n - 1)
         \cup {Append(q, x) : q \in {r \in SeqsUpTo(S, n - 1) : Len(r) = n - 1}, x \in S}
ConnLists == SeqsUpTo(PatientIds, MaxConns)

CliQueries == {"get_current_user", "get_account", "list_connections", "get_patient_graph"}

Called(o, a, r) == [op |-> o, arg |-> a, res |-> r]
CallOutcome(e) == IF e = "ok" THEN "ok" ELSE "error"
\* the call in progress has ended with e
Returned(cs, e) == [cs EXCEPT ![Len(cs)].res = CallOutcome(e)]

\* the except clause of the authentication block, without the exit
AfterFailedAuthenticateGoesOn == "get_current_user"
\* except Exception as auth_error: ... sys.exit(1)
AfterFailedAuthenticate == "exit"

\* main() after authenticate() moved on
CliAfterAuthenticate ==
    IF pc'[1] # "idle" THEN UNCHANGED <<appPc, appRet, calls>>
    ELSE /\ calls' = Returned(calls, result'[1])
         /\ appPc' = IF result'[1] = "ok" THEN "get_current_user"
                     ELSE AfterFailedAuthenticate
         /\ appRet' = IF appPc' = "exit" THEN "1" ELSE appRet

\* where main() goes after the query at appPc ended; cs: the connections left
CliAfter(o, ok, cs) ==
    CASE o = "get_current_user" -> "get_account"
      [] o = "get_account" -> "list_connections"
      [] OTHER -> IF ok /\ cs # <<>> THEN "get_patient_graph" ELSE "done"

\* the connections to go through after the query at appPc ended
CliConnsAfter(o, ok) ==
    IF o = "list_connections" THEN (IF ok THEN ConnLists ELSE {<<>>})
    ELSE IF o = "get_patient_graph" THEN {Tail(conns)}
    ELSE {conns}

CliEnd(o, ok) ==
    \E cs \in CliConnsAfter(o, ok) :
        /\ conns' = cs
        /\ appPc' = CliAfter(o, ok \/ o = "get_patient_graph", cs)
        /\ appRet' = IF appPc' = "done" THEN "0" ELSE appRet

\* auth_data = client.authenticate()
CliAuthenticate ==
    /\ appPc = "main"
    /\ Authenticate(1)
    /\ appPc' = "authenticate"
    /\ calls' = <<Called("authenticate", NoKey, "pending")>>
    /\ UNCHANGED <<appRet, conns, dash>>
    /\ UNCHANGED <<maskVars, sharedVars>>

CliLoginAnswer ==
    /\ appPc = "authenticate"
    /\ LoginResponse(1)
    /\ CliAfterAuthenticate
    /\ UNCHANGED <<conns, dash>>
    /\ UNCHANGED <<maskVars, sharedVars>>

CliTermsAnswer ==
    /\ appPc = "authenticate"
    /\ TermsResponse(1)
    /\ CliAfterAuthenticate
    /\ UNCHANGED <<conns, dash>>
    /\ UNCHANGED <<maskVars, sharedVars>>

\* the next client call of main(); a call raising before its request ends at once
CliCall ==
    /\ appPc \in CliQueries /\ pc[1] = "idle"
    /\ appPc = "get_patient_graph" => Head(conns) # ""
    /\ Query(1)
    /\ op'[1] = appPc
    /\ appPc = "get_patient_graph" => arg'[1] = Head(conns)
    /\ IF pc'[1] = "idle"
       THEN /\ calls' = Append(calls, Called(appPc, arg'[1], CallOutcome(result'[1])))
            /\ CliEnd(appPc, FALSE)
       ELSE /\ calls' = Append(calls, Called(appPc, arg'[1], "pending"))
            /\ UNCHANGED <<appPc, appRet, conns>>
    /\ UNCHANGED dash
    /\ UNCHANGED <<maskVars, sharedVars>>

CliAnswer ==
    /\ appPc \in CliQueries /\ pc[1] = "query_wait"
    /\ QueryResponse(1)
    /\ calls' = Returned(calls, result'[1])
    /\ CliEnd(appPc, result'[1] = "ok")
    /\ UNCHANGED dash
    /\ UNCHANGED <<maskVars, sharedVars>>

\* "if patient_id:" is false for this connection
CliSkipConnection ==
    /\ appPc = "get_patient_graph" /\ pc[1] = "idle"
    /\ Head(conns) = ""
    /\ conns' = Tail(conns)
    /\ appPc' = IF conns' = <<>> THEN "done" ELSE appPc
    /\ appRet' = IF appPc' = "done" THEN "0" ELSE appRet
    /\ UNCHANGED <<calls, dash>>
    /\ UNCHANGED <<clientVars, maskVars, sharedVars>>

\* client = LibreCGMClient(email, password, config) with the default ApiConfig
InitCli ==
    /\ variant = "client"
    /\ base_url = InitBaseUrl(Host, "us")
    /\ auth_ticket = NullTicket
    /\ token = NoneVal
    /\ pc = [c \in Callers |-> "idle"]
    /\ op = [c \in Callers |-> "none"]
    /\ arg = [c \in Callers |-> NoKey]
    /\ request = [c \in Callers |-> NoReq]
    /\ nreq = [c \in Callers |-> 0]
    /\ hops = [c \in Callers |-> 0]
    /\ result = [c \in Callers |-> "none"]
    /\ lastResp = [c \in Callers |-> NoResp]
    /\ start = [c \in Callers |-> Snapshot]
    /\ lastStep = "none"
    /\ masker = "utils"
    /\ maskArg = EmptyDict
    /\ maskRet = Unset
    /\ tmp = [c \in Callers |-> NoneVal]
    /\ alone = [c \in Callers |-> TRUE]
    /\ appPc = "main"
    /\ appRet = "none"
    /\ calls = <<>>
    /\ conns = <<>>
    /\ dash = DashInit

NextCli ==
    \/ CliAuthenticate
    \/ CliLoginAnswer
    \/ CliTermsAnswer
    \/ CliCall
    \/ CliAnswer
    \/ CliSkipConnection

SpecCli == InitCli /\ [][NextCli]_vars

\* ----------------------------------------------------------------- logging
\* data.authTicket of an answer
TicketJson(tkt) ==
    IF tkt.shape = "null" THEN Null
    ELSE IF tkt.token = NoKey THEN EmptyDict
    ELSE Dict("token" :> Str(TokenChars(tkt.token)))

\* the data object of an answer of the LibreView API
DataJson(resp) ==
    LET r1 == IF resp.redirect THEN "redirect" :> JTrue ELSE <<>>
        r2 == IF resp.region = NoKey THEN r1
              ELSE IF resp.redirect THEN r1 @@ "region" :> Str(<<resp.region>>)
              ELSE "region" :> Str(<<resp.region>>)
    IN  IF resp.ticket.shape = "absent" THEN Dict(r2)
        ELSE IF DOMAIN r2 = {} THEN Dict("authTicket" :> TicketJson(resp.ticket))
        ELSE Dict(r2 @@ "authTicket" :> TicketJson(resp.ticket))

\* response.json() of an answer with a JSON body
ResponseJson(v, resp) ==
    LET st == "status" :> Num(resp.status)
    IN  IF v = "linkup"
        THEN Dict(IF resp.toptoken = NoKey THEN st
                  ELSE st @@ "token" :> Str(TokenChars(resp.toptoken)))
        ELSE Dict(IF resp.hasData THEN st @@ "data" :> DataJson(resp) ELSE st)

\* what the request logging writes for request req (http_data['request'];
\* linkup: "Request Headers", "Request Data", with a data masker supplied as in
\* the examples); libre_view.py and client_new.py do not log requests
LoggedRequest(v, req) ==
    LET m == IF v = "client" THEN "client" ELSE "utils"
        payload == PayloadJson(v, req.body)
    IN  IF req.method = "none" \/ v \notin {"client", "linkup"} THEN EmptyDict
        ELSE Dict("headers" :> MaskData(m, HeadersJson(req.headers))
                  @@ "body" :> (IF JTruthy(payload) THEN MaskData(m, payload) ELSE Null))

\* what the response logging writes for answer resp (http_data['response'];
\* linkup: "Response Data"); an answer without JSON body has no fields
LoggedResponse(v, resp) ==
    IF resp.kind \notin {"ok", "http"} \/ v \notin {"client", "linkup"} THEN EmptyDict
    ELSE IF v = "client" THEN Dict("body" :> ResponseJson(v, resp))
    ELSE Dict("body" :> MaskData("utils", ResponseJson(v, resp)))

\* ================================================================= claims
\* the operations that need the bearer token (spec.md 4.3)
AuthenticatedOps ==
    {"get_current_user", "get_account", "list_connections", "get_patient_graph",
     "get_connection_graph", "get_patient_logbook", "get_notification_settings"}

Last(url) == url[Len(url)]

\* a 2xx JSON login answer without redirect that carries an authTicket with a token
TicketAnswer(r) ==
    /\ r.kind = "ok" /\ r.hasData /\ r.ticket.shape = "dict" /\ r.ticket.token \in Tokens
Status0Answer(r) == TicketAnswer(r) /\ ~r.redirect /\ r.status = 0
Status4Answer(r) == TicketAnswer(r) /\ ~r.redirect /\ r.status = 4
RedirectAnswer(r) == r.kind = "ok" /\ r.hasData /\ r.redirect /\ r.region \in Regions

\* C1: token is non-null only if the last completed authentication step was a
\* login answered with status 0 or a successful terms acceptance.
C1_TokenOnlyAfterStatus0OrTerms ==
    token # NoneVal => lastStep \in {"login0", "terms"}

\* C2: a first login answered with status 0 (no redirect, ticket with token t)
\* ends authenticate() after exactly one request, with auth_ticket the answer's
\* ticket, token = t and the session Authenticated.
C2_Status0LoginStoresToken ==
    [][\A c \in Callers :
        (/\ variant \in CGMVariants
         /\ pc[c] = "login_wait" /\ hops[c] = 0
         /\ Status0Answer(lastResp'[c]))
        => (/\ pc'[c] = "idle" /\ result'[c] = "ok"
            /\ nreq[c] = 1 /\ nreq'[c] = 1
            /\ auth_ticket' = lastResp'[c].ticket
            /\ token' = lastResp'[c].ticket.token
            /\ Truthy(token'))]_vars

C2_Witness ==
    \E c \in Callers :
        /\ variant \in CGMVariants
        /\ op[c] = "authenticate" /\ pc[c] = "idle" /\ result[c] = "ok"
        /\ hops[c] = 0 /\ nreq[c] = 1
        /\ Status0Answer(lastResp[c])
        /\ start[c].token = NoneVal
        /\ token = lastResp[c].ticket.token

\* C3: login answered with status 4 and ticket T1, terms continuation answered
\* with ticket T2: authenticate() ends with token = T2 and auth_ticket the T2
\* ticket, and while the call runs token is never written (T1 is never stored
\* in it).
C3_DuringCall ==
    \A c \in Callers :
        (variant \in CGMVariants /\ op[c] = "authenticate" /\ pc[c] # "idle")
        => token = start[c].token
C3_Step ==
    \A c \in Callers :
        /\ (/\ variant \in CGMVariants
            /\ pc[c] = "login_wait"
            /\ Status4Answer(lastResp'[c]))
           => (/\ pc'[c] = "terms_wait"
               /\ auth_ticket' = lastResp'[c].ticket
               /\ token' = token
               /\ request'[c].headers.Authorization = Bearer(lastResp'[c].ticket.token))
        /\ (/\ variant \in CGMVariants
            /\ pc[c] = "terms_wait" /\ op[c] = "authenticate"
            /\ TicketAnswer(lastResp'[c]))
           => (/\ pc'[c] = "idle" /\ result'[c] = "ok"
               /\ auth_ticket' = lastResp'[c].ticket
               /\ token' = lastResp'[c].ticket.token)
C3_TermsTokenReplacesLoginToken == []C3_DuringCall /\ [][C3_Step]_vars

C3_Witness ==
    \E c \in Callers :
        /\ variant \in CGMVariants
        /\ op[c] = "authenticate" /\ pc[c] = "idle" /\ result[c] = "ok"
        /\ lastStep = "terms"
        /\ request[c].headers.Authorization = Bearer("T1")
        /\ token = "T2" /\ auth_ticket = DictTicket("T2")
        /\ start[c].token = NoneVal

\* C4: a first login answered with a redirect to region R and a successful second
\* login: exactly two login requests, the call ends Authenticated, and every
\* request goes to the base URL, which ends in /R and changes only on a redirect.
C4_RequestsGoToBaseUrl ==
    \A c \in Callers :
        (variant \in CGMVariants /\ pc[c] # "idle")
        => /\ Len(request[c].url) > Len(base_url)
           /\ SubSeq(request[c].url, 1, Len(base_url)) = base_url
C4_Step ==
    /\ (variant \in CGMVariants /\ base_url' # base_url)
       => \E c \in Callers :
            pc[c] = "login_wait" /\ pc'[c] = "login_wait" /\ RedirectAnswer(lastResp'[c])
    /\ \A c \in Callers :
        /\ (/\ variant \in CGMVariants
            /\ pc[c] = "login_wait"
            /\ RedirectAnswer(lastResp'[c]))
           => (/\ pc'[c] = "login_wait"
               /\ Last(base_url') = lastResp'[c].region
               /\ request'[c].url = Join(base_url', <<"llu", "auth", "login">>))
        /\ (/\ variant \in CGMVariants
            /\ pc[c] = "login_wait" /\ hops[c] = 1
            /\ RedirectAnswer(lastResp[c])
            /\ Status0Answer(lastResp'[c]))
           => (/\ pc'[c] = "idle" /\ result'[c] = "ok"
               /\ nreq'[c] = 2 /\ hops'[c] = 1
               /\ Truthy(token')
               /\ Last(base_url') = lastResp[c].region)
C4_OneRedirectHop == []C4_RequestsGoToBaseUrl /\ [][C4_Step]_vars

C4_Witness ==
    \E c \in Callers :
        /\ variant \in CGMVariants
        /\ op[c] = "authenticate" /\ pc[c] = "idle" /\ result[c] = "ok"
        /\ hops[c] = 1 /\ nreq[c] = 2
        /\ Truthy(token)
        /\ Last(start[c].base_url) = "us" /\ Last(base_url) = "eu"
        /\ request[c].url = Join(base_url, <<"llu", "auth", "login">>)

\* C5: authenticate() follows at most a small fixed number of redirects (3).
C5_RedirectsCapped ==
    \A c \in Callers : hops[c] <= 3

\* a request that failed, and a 2xx JSON body without a usable authTicket
FailedAnswer(r) == r.kind \in {"transport", "http", "nonjson"}
MalformedBody(r) ==
    /\ r.kind = "ok"
    /\ (~r.hasData \/ r.ticket.shape \in {"absent", "null"} \/ r.ticket.token = NoKey)

\* C6: on a session without token, a failed request or a malformed body in any
\* step of authenticate() (first login, login after redirects, terms
\* continuation) makes the call raise, and token is still null.
C6_Step ==
    \A c \in Callers :
        (/\ variant \in CGMVariants
         /\ op[c] = "authenticate" /\ start[c].token = NoneVal
         /\ \/ /\ pc[c] = "login_wait"
               /\ \/ FailedAnswer(lastResp'[c])
                  \/ MalformedBody(lastResp'[c]) /\ ~IsRedirect(lastResp'[c])
            \/ /\ pc[c] = "terms_wait"
               /\ FailedAnswer(lastResp'[c]) \/ MalformedBody(lastResp'[c]))
        => (/\ pc'[c] = "idle"
            /\ result'[c] \notin {"ok", "none"}
            /\ token' = NoneVal)
C6_FailedAuthenticateLeavesTokenNull == [][C6_Step]_vars

C6_Witness ==
    \E c \in Callers :
        /\ variant \in CGMVariants
        /\ op[c] = "authenticate" /\ pc[c] = "idle"
        /\ start[c].token = NoneVal /\ token = NoneVal
        /\ hops[c] >= 1 /\ nreq[c] >= 3
        /\ lastResp[c].kind = "http"
        /\ result[c] = "HTTPError"

\* C7: an authenticated operation with valid arguments called while token is
\* null raises the precondition error and issues no HTTP request.
C7_NoTokenNoRequest ==
    \A c \in Callers :
        (op[c] \in AuthenticatedOps /\ arg[c] # "" /\ start[c].token = NoneVal)
        => (/\ pc[c] = "idle" /\ result[c] = "RuntimeError"
            /\ nreq[c] = 0 /\ request[c] = NoReq)

\* C8: an empty identifier, or a country code whose length is not 2, raises a
\* validation error and issues no HTTP request, in any session state.
C8_InvalidArgumentNoRequest ==
    \A c \in Callers :
        (\/ /\ op[c] \in {"get_patient_graph", "get_patient_logbook",
                          "get_notification_settings"}
            /\ arg[c] = ""
         \/ /\ op[c] = "get_country_config"
            /\ Len(arg[c]) # 2)
        => (/\ pc[c] = "idle" /\ result[c] = "ValueError"
            /\ nreq[c] = 0 /\ request[c] = NoReq)

\* C9: accept_terms() called while no auth ticket is stored raises the
\* precondition error, issues no HTTP request and leaves token and auth_ticket
\* null.
C9_AcceptTermsNeedsTicket ==
    \A c \in Callers :
        (op[c] = "accept_terms" /\ start[c].auth_ticket = NullTicket)
        => (/\ pc[c] = "idle" /\ result[c] = "RuntimeError"
            /\ nreq[c] = 0 /\ request[c] = NoReq
            /\ auth_ticket = NullTicket /\ token = NoneVal)

\* C10: every request carries the version and product headers, and a request
\* of an authenticated operation carries Authorization: Bearer <token at the
\* moment of the call>.
C10_RequestHeaders ==
    \A c \in Callers :
        request[c] # NoReq
        => (/\ request[c].headers.version = DefaultVersion(variant)
            /\ request[c].headers.product = DefaultProduct(variant)
            /\ op[c] \in AuthenticatedOps
               => request[c].headers.Authorization = Bearer(start[c].token))

\* ---------------------------------------------------------------- C11..C20
AllQueryOps == AuthenticatedOps \cup {"get_country_config"}

\* C11: get_country_config with a 2-character code works in any session state:
\* one GET to <base URL>/llu/config/country without Authorization header (also
\* when a token is stored) and with the code as query parameter country.
C11_CountryConfigUnauthenticated ==
    \A c \in Callers :
        (op[c] = "get_country_config" /\ Len(arg[c]) = 2)
        => (/\ nreq[c] = 1
            /\ request[c].method = "GET"
            /\ request[c].url = Join(start[c].base_url, <<"llu", "config", "country">>)
            /\ request[c].headers.Authorization = NoKey
            /\ request[c].params = arg[c]
            /\ result[c] \notin {"RuntimeError", "ValueError"})

C11_Witness ==
    \E c \in Callers :
        /\ op[c] = "get_country_config" /\ arg[c] = "us"
        /\ Truthy(token)
        /\ pc[c] = "idle" /\ result[c] = "ok"
        /\ request[c].headers.Authorization = NoKey /\ request[c].params = "us"

\* the argument and token checks of spec.md 4.3
ChecksPass(o, a, tok) ==
    /\ o \in IdOps => a # ""
    /\ o = "get_country_config" => Len(a) = 2
    /\ o # "get_country_config" => Truthy(tok)

\* C12: a query that passes its checks issues exactly one request, whatever was
\* called before (no cache), and its answer ends the call with the decoded body
\* or the error of that one request (no retry).
C12_Step ==
    \A c \in Callers :
        /\ (/\ pc[c] = "idle" /\ op'[c] \in AllQueryOps
            /\ ChecksPass(op'[c], arg'[c], token))
           => (/\ pc'[c] = "query_wait" /\ nreq'[c] = 1
               /\ request'[c].url = Join(base_url, Endpoint(op'[c], arg'[c])))
        /\ pc[c] = "query_wait"
           => (/\ pc'[c] = "idle" /\ nreq'[c] = 1 /\ request'[c] = request[c]
               /\ result'[c] # "none"
               /\ result'[c] = "ok" <=> lastResp'[c].kind = "ok")
C12_OneRequestPerQuery == [][C12_Step]_vars

C12_Witness ==
    \E c \in Callers :
        /\ op[c] = "list_connections" /\ Truthy(start[c].token)
        /\ pc[c] = "idle" /\ nreq[c] = 1
        /\ lastResp[c].kind = "http" /\ result[c] = "HTTPError"

\* C15: base URL, auth_ticket and token are changed only by authenticate and
\* accept_terms: no step of a query operation changes them.
C15_Step ==
    \A c \in Callers :
        (op'[c] \in AllQueryOps /\ <<pc[c], op[c], arg[c], result[c]>>
                                   # <<pc'[c], op'[c], arg'[c], result'[c]>>)
        => session' = session
C15_QueriesLeaveSession == [][C15_Step]_vars

C15_Witness ==
    \E c \in Callers :
        /\ op[c] = "get_patient_graph" /\ arg[c] = "p1"
        /\ pc[c] = "idle" /\ result[c] = "HTTPError"
        /\ token \in Tokens /\ Snapshot = start[c]

\* C16: once token is non-null it never becomes null or empty again.
C16_AuthenticatedIsTerminal == [][Truthy(token) => Truthy(token')]_vars

\* C17: the REST call returns a value only for a 2xx answer with a JSON body;
\* a transport failure, a non-2xx status and a non-JSON body each raise to the
\* caller after the one attempt.
C17_Step ==
    \A c \in Callers :
        pc[c] # "idle"
        => (/\ lastResp'[c].kind = "transport" => result'[c] = "ConnectionError"
            /\ lastResp'[c].kind = "http" => result'[c] = "HTTPError"
            /\ lastResp'[c].kind = "nonjson" => result'[c] = "JSONDecodeError"
            /\ lastResp'[c].kind # "ok"
               => (pc'[c] = "idle" /\ nreq'[c] = nreq[c] /\ request'[c] = request[c])
            /\ result'[c] = "ok" => lastResp'[c].kind = "ok")
C17_WrapperRaisesOnFailure == [][C17_Step]_vars

C17_Witness ==
    \E c \in Callers :
        /\ pc[c] = "idle" /\ nreq[c] = 1
        /\ lastResp[c].kind = "nonjson" /\ result[c] = "JSONDecodeError"

\* C18: a login request carries only the default headers, never Authorization,
\* also when a token of an earlier login is stored.
C18_LoginHasNoAuthorization ==
    \A c \in Callers :
        pc[c] = "login_wait" => request[c].headers = DefaultHeaders(variant)

\* C19: after any sequence of authenticate and accept_terms calls, a non-null
\* token equals the token of the stored auth_ticket.
C19_TokenDerivedFromTicket ==
    (variant \in CGMVariants /\ \A c \in Callers : pc[c] = "idle")
    => (token # NoneVal
        => (auth_ticket.shape = "dict" /\ auth_ticket.token = token))

\* C20: the terms request authenticate() sends after a status-4 login is a POST
\* without body to <base URL of that login>/auth/continue/tou with
\* Authorization: Bearer <token of the ticket of that login answer>.
C20_Step ==
    \A c \in Callers :
        (pc[c] = "login_wait" /\ pc'[c] = "terms_wait")
        => (/\ lastResp'[c].status = 4
            /\ request[c].url = Join(base_url', <<"llu", "auth", "login">>)
            /\ request'[c].method = "POST" /\ request'[c].body = "none"
            /\ request'[c].params = NoKey
            /\ request'[c].url = Join(base_url', <<"auth", "continue", "tou">>)
            /\ request'[c].headers = AuthHeaders(variant, lastResp'[c].ticket.token))
C20_TermsRequestUsesLoginTicket == [][C20_Step]_vars

C20_Witness ==
    \E c \in Callers :
        /\ op[c] = "authenticate" /\ pc[c] = "terms_wait"
        /\ hops[c] = 1 /\ token = "T2"
        /\ request[c].url = Join(base_url, <<"auth", "continue", "tou">>)
        /\ request[c].headers.Authorization = Bearer("T1")

\* the masked form the specification gives for a non-empty sensitive value
\* (spec.md 4.4): first 3 characters, "...", last 4 characters; "****" up to length 8
SpecMaskedForm(s) ==
    IF Len(s) > 8 THEN SubSeq(s, 1, 3) \o Dots \o SubSeq(s, Len(s) - 3, Len(s)) ELSE Stars

\* C13: each of the three masking implementations returns, for every string field
\* of its argument, the masked form (first 3 + "..." + last 4 when longer than 8
\* characters, "****" otherwise) when the key is sensitive and the value non-empty,
\* and the value itself otherwise
C13_MaskRule ==
    maskRet # Unset =>
        \A k \in DOMAIN maskArg.v :
            maskArg.v[k].t = "str" =>
                maskRet.v[k] =
                    IF k \in SensitiveFields(masker) /\ maskArg.v[k].v # <<>>
                    THEN Str(SpecMaskedForm(maskArg.v[k].v))
                    ELSE maskArg.v[k]

\* string n occurs in string h
Contains(h, n) ==
    \E i \in 1..(Len(h) - Len(n) + 1) : SubSeq(h, i, i + Len(n) - 1) = n

\* string secret occurs in a string of the JSON value x
RECURSIVE Occurs(_, _)
Occurs(secret, x) ==
    IF x.t = "str" THEN Contains(x.v, secret)
    ELSE IF x.t \in {"dict", "list"} THEN \E k \in DOMAIN x.v : Occurs(secret, x.v[k])
    ELSE FALSE

\* the clear-text values of the sensitive fields
Secrets == {TokenChars(t) : t \in Tokens} \cup {EmailChars, PasswordChars}

\* C14: neither the logged request (headers, body) nor the logged response body
\* of any exchange contains the clear-text value of a token, the email or the
\* password, the login response with authTicket.token included
C14_NoClearTextInLogs ==
    \A c \in Callers : \A secret \in Secrets :
        /\ ~Occurs(secret, LoggedRequest(variant, request[c]))
        /\ ~Occurs(secret, LoggedResponse(variant, lastResp[c]))

\* ---------------------------------------------------------------- C21..C30
\* C21: a 2xx login answer is classified in the order redirect, status 4,
\* success: a redirect answer is followed (new login request to the new base
\* URL) and its ticket never stored, also when it carries status 4 or a ticket;
\* without redirect a status-4 answer leads to the terms request with the
\* ticket stored and token untouched; only an answer with neither ends the call
\* successfully, with its ticket and the ticket's token stored.
C21_Step ==
    \A c \in Callers :
        (/\ variant \in CGMVariants
         /\ pc[c] = "login_wait"
         /\ lastResp'[c].kind = "ok")
        => LET r == lastResp'[c] IN
           /\ IsRedirect(r)
              => /\ auth_ticket' = auth_ticket /\ token' = token
                 /\ r.region \in Regions
                    => /\ pc'[c] = "login_wait"
                       /\ Last(base_url') = r.region
                       /\ request'[c].url = Join(base_url', <<"llu", "auth", "login">>)
           /\ (~IsRedirect(r) /\ TicketAnswer(r) /\ r.status = 4)
              => /\ pc'[c] = "terms_wait"
                 /\ auth_ticket' = r.ticket /\ token' = token /\ base_url' = base_url
           /\ (~IsRedirect(r) /\ TicketAnswer(r) /\ r.status # 4)
              => /\ pc'[c] = "idle" /\ result'[c] = "ok"
                 /\ auth_ticket' = r.ticket /\ token' = r.ticket.token
                 /\ base_url' = base_url
           /\ (pc'[c] = "idle" /\ result'[c] = "ok")
              => (~IsRedirect(r) /\ r.status # 4)
C21_LoginAnswerPriority == [][C21_Step]_vars

C21_Witness ==
    \E c \in Callers :
        /\ variant \in CGMVariants
        /\ op[c] = "authenticate" /\ pc[c] = "login_wait" /\ hops[c] = 1
        /\ IsRedirect(lastResp[c]) /\ lastResp[c].status = 4
        /\ lastResp[c].ticket = DictTicket("T1")
        /\ auth_ticket = NullTicket /\ token = NoneVal
        /\ Last(base_url) = lastResp[c].region

\* both callers' authenticate() calls have returned successfully
BothReturned ==
    \A c \in Callers : op[c] = "authenticate" /\ pc[c] = "idle" /\ result[c] = "ok"

\* the whole session stems from the last exchange of caller c: token and
\* auth_ticket from its answer, and its request went to the base URL
SessionFromCall(c) ==
    /\ lastResp[c].kind = "ok"
    /\ auth_ticket = lastResp[c].ticket
    /\ token = lastResp[c].ticket.token
    /\ Len(request[c].url) > Len(base_url)
    /\ SubSeq(request[c].url, 1, Len(base_url)) = base_url

\* C22: two callers share one instance. When their authenticate() calls do not
\* overlap (exclusive ownership) and both have returned successfully, token,
\* auth_ticket and base URL all stem from one call's last exchange; with
\* overlapping calls a state is reachable where token is from one caller's
\* login answer and auth_ticket from the other's.
C22_ExclusiveSessionIsConsistent ==
    (BothReturned /\ \A c \in Callers : alone[c]) => \E c \in Callers : SessionFromCall(c)

C22_Witness ==
    /\ BothReturned
    /\ \E c, d \in Callers :
        /\ c # d /\ ~alone[c] /\ ~alone[d]
        /\ lastResp[c].kind = "ok" /\ lastResp[d].kind = "ok"
        /\ token = lastResp[c].ticket.token
        /\ auth_ticket = lastResp[d].ticket
        /\ auth_ticket.token # token

\* the configured base URL with trailing slashes stripped (both configurations)
ConfiguredHost == RStripSlash(Host)

\* C23: for every construction configuration, the empty region included, the
\* base URL is the configured base URL (trailing slashes stripped), followed
\* after a redirect by "/" and the region the server supplied last: a redirect
\* never alters the scheme or host part.
C23_HostKept ==
    variant \in CGMVariants
    => /\ Len(base_url) >= Len(ConfiguredHost)
       /\ SubSeq(base_url, 1, Len(ConfiguredHost)) = ConfiguredHost
C23_Step ==
    \A c \in Callers :
        (/\ variant \in CGMVariants
         /\ pc[c] = "login_wait"
         /\ RedirectAnswer(lastResp'[c]))
        => base_url' = Append(ConfiguredHost, lastResp'[c].region)
C23_BaseUrlIsHostPlusRegion == []C23_HostKept /\ [][C23_Step]_vars

\* C24: an authenticate() call that ended with an error has left base URL,
\* auth_ticket and token as they were when the call began.
C24_FailedAuthenticateRestoresSession ==
    \A c \in Callers :
        (/\ variant \in CGMVariants
         /\ op[c] = "authenticate" /\ pc[c] = "idle"
         /\ result[c] \notin {"ok", "none"})
        => Snapshot = start[c]

\* C25: a call of mask_sensitive_data leaves its argument, nested dicts and
\* lists included, as it was and returns a separate structure: the headers and
\* the payload a client passes to the HTTP call after logging them still hold
\* the unmasked Authorization, email and password values.
C25_Step == (maskRet = Unset /\ maskRet' # Unset) => maskArg' = maskArg
RECURSIVE MaskedEverywhere(_, _)
MaskedEverywhere(x, y) ==
    IF x.t = "dict"
    THEN \A k \in DOMAIN x.v :
            IF k \in SensitiveFields("utils") /\ x.v[k].t = "str" /\ x.v[k].v # <<>>
            THEN y.v[k] = Str(SpecMaskedForm(x.v[k].v))
            ELSE MaskedEverywhere(x.v[k], y.v[k])
    ELSE IF x.t = "list" THEN \A i \in DOMAIN x.v : MaskedEverywhere(x.v[i], y.v[i])
    ELSE TRUE

\* C26: the value utils/data_masking.py's mask_sensitive_data returns has every
\* non-empty sensitive field of the argument masked, in nested dicts, in lists
\* of dicts and in lists nested in lists.
C26_MasksAtEveryDepth ==
    (masker = "utils" /\ maskRet # Unset) => MaskedEverywhere(maskArg, maskRet)

\* C27: masking a value that mask_sensitive_data returned gives that value again.
C27_MaskingIsIdempotent == [][maskRet # Unset => maskRet' = maskRet]_vars

C27_Witness ==
    /\ masker \in {"client", "utils"}
    /\ maskRet # Unset /\ maskArg = maskRet
    /\ "token" \in DOMAIN maskArg.v
    /\ Len(maskArg.v["token"].v) = 10
    /\ SubSeq(maskArg.v["token"].v, 4, 6) = Dots

\* C28: when authenticate() returns with the client Authenticated, connect()
\* goes on to list_connections, and when that succeeds connect() returns True:
\* after a direct status-0 login, after redirects and after terms acceptance.
C28_Step ==
    /\ (/\ appPc = "authenticate"
        /\ pc'[1] = "idle" /\ result'[1] = "ok" /\ Truthy(token'))
       => appPc' = "list_connections"
    /\ (/\ appPc = "list_connections" /\ pc[1] = "query_wait"
        /\ pc'[1] = "idle" /\ result'[1] = "ok")
       => appRet' = "True"
C28_ConnectSucceedsWhenAuthenticated == [][C28_Step]_vars

\* C29: a rerun of the dashboard fetches patient data only when nothing is
\* cached or the selected patient differs from the cached patient id;
\* otherwise it shows the cached readings without a network call; and the
\* readings shown always belong to the selected patient, so a failed or empty
\* fetch for a newly selected patient shows nothing of the previous patient.
C29_ShownBelongsToSelected ==
    dash.shown # NoData => dash.shown.patient = dash.sel
C29_Step ==
    dash' # dash =>
        /\ dash'.fetched => (dash.cacheData = NoData \/ dash.cacheId # dash'.sel)
        /\ (dash.cacheData # NoData /\ dash.cacheId = dash'.sel)
           => (~dash'.fetched /\ dash'.shown = dash.cacheData)
C29_CacheOnlyForSamePatient == []C29_ShownBelongsToSelected /\ [][C29_Step]_vars
C29_Witness ==
    /\ dash.cacheId = "p1" /\ dash.cacheData = Readings("p1", 2)
    /\ dash.sel = "p2" /\ dash.fetched /\ dash.shown = NoData

\* C30: the CLI main() calls no query unless authenticate() returned without
\* error, and a failed authentication ends the program with status 1 at once;
\* after authentication get_current_user, get_account and list_connections are
\* each called once, in that order, whether or not an earlier one failed; and
\* get_patient_graph is called only with the patientId of a connection that
\* has one, and only after list_connections succeeded.
C30_Calls ==
    /\ \A i \in 1..Len(calls) :
        /\ (i = 1) = (calls[i].op = "authenticate")
        /\ (i = 2) = (calls[i].op = "get_current_user")
        /\ (i = 3) = (calls[i].op = "get_account")
        /\ (i = 4) = (calls[i].op = "list_connections")
        /\ i > 1 => calls[1].res = "ok"
        /\ i > 4 => /\ calls[i].op = "get_patient_graph"
                    /\ calls[i].arg # ""
                    /\ calls[4].res = "ok"
    /\ (calls # <<>> /\ calls[1].res = "error") => (appPc = "exit" /\ appRet = "1")
    /\ appPc = "done" => Len(calls) >= 4
C30_Step ==
    (Len(calls') > Len(calls) /\ Len(calls') > 4)
        => (conns # <<>> /\ calls'[Len(calls')].arg = Head(conns))
====
